---- MODULE Spec2Model ----
(***************************************************************************)
(* Model of backup.py: a configuration-driven driver of the restic backup  *)
(* engine.  The process parses a configuration (repositories and backup    *)
(* jobs), then runs exactly one of cmd_init, cmd_check, cmd_backup, each a *)
(* sequential loop of engine invocations.                                  *)
(*                                                                         *)
(* Python values: None is the reserved string None below; a truthiness     *)
(* test `if x` / `not x` on an Optional[str] is Truthy(x).  A list is a    *)
(* sequence, an insertion-ordered dict a sequence of [key, value] records. *)
(***************************************************************************)
EXTENDS Integers, Sequences, FiniteSets, TLC

\* ---- bounds of the model ------------------------------------------------
MaxRepos == 2
MaxJobs == 2
MaxJobRepos == 2
MaxGroupJobs == 4

\* ---- Python values ------------------------------------------------------
None == "<None>"

Truthy(x) == x # None /\ x # ""

\* Names of the [repo.<name>] tables, in file order; Undeclared is a name no
\* table declares.
RepoNames == <<"A", "B", "C", "D">>

Undeclared == "X"

\* Paths of the [backup.<name>] tables, in file order.
JobPaths == <<"/data/x", "/data/y", "/data/z", "/data/w", "/data/v", "/data/u">>

\* Host tags a job may carry: absent, empty, and a label.
JobHosts == {None, "", "prod"}

\* os.environ after load_dotenv(): only PW is set.
environ == [PW |-> "env-secret"]

\* ---- exceptions ---------------------------------------------------------
NoExc == "none"

ResticError == "ResticError"

RepositoryError == "RepositoryError"

\* fatal_error: prints and calls sys.exit(1), which raises SystemExit.
SystemExit == "SystemExit"

fatal_error == [exc |-> SystemExit, val |-> None]

\* ---- Repository ---------------------------------------------------------
\* Field sets of class Repository (description is free text and is left out).
Repository(name) ==
    { [name |-> name, method |-> "local", path |-> "/backup/a", password |-> "inline-secret",
       password_env |-> None, host |-> None, user |-> None, identity_file |-> None],
      [name |-> name, method |-> "sftp", path |-> "/b", password |-> None,
       password_env |-> "PW", host |-> "h.example", user |-> "u", identity_file |-> "id_rsa"],
      [name |-> name, method |-> "sftp", path |-> "/b", password |-> None,
       password_env |-> None, host |-> "h.example", user |-> None, identity_file |-> None],
      [name |-> name, method |-> "sftp", path |-> "/b", password |-> "inline-secret",
       password_env |-> None, host |-> None, user |-> "u", identity_file |-> None],
      [name |-> name, method |-> "local", path |-> None, password |-> "inline-secret",
       password_env |-> None, host |-> None, user |-> None, identity_file |-> None],
      [name |-> name, method |-> "s3", path |-> "/bucket", password |-> "inline-secret",
       password_env |-> None, host |-> None, user |-> None, identity_file |-> None],
      [name |-> name, method |-> "local", path |-> "/backup/a", password |-> None,
       password_env |-> "NOPW", host |-> None, user |-> None, identity_file |-> None] }

\* get_password with the environment variable taking precedence over the
\* inline password.
get_password_env_first(self) ==
    IF self.password_env # None
    THEN IF self.password_env \in DOMAIN environ
         THEN [exc |-> NoExc, val |-> environ[self.password_env]]
         ELSE fatal_error
    ELSE IF self.password # None
         THEN [exc |-> NoExc, val |-> self.password]
         ELSE [exc |-> NoExc, val |-> "123"]

get_password(self) ==
    IF self.password # None
    THEN [exc |-> NoExc, val |-> self.password]
    ELSE IF self.password_env # None
         THEN IF self.password_env \in DOMAIN environ
              THEN [exc |-> NoExc, val |-> environ[self.password_env]]
              ELSE fatal_error
         ELSE [exc |-> NoExc, val |-> IF Truthy(self.password) THEN self.password ELSE "123"]

\* get_url without the host test of the sftp branch.
get_url_no_host_test(self) ==
    IF self.method = "local"
    THEN IF ~Truthy(self.path)
         THEN [exc |-> RepositoryError, val |-> None]
         ELSE [exc |-> NoExc, val |-> self.path]
    ELSE IF self.method = "sftp"
         THEN IF ~Truthy(self.path)
              THEN [exc |-> RepositoryError, val |-> None]
              ELSE IF Truthy(self.user)
                   THEN [exc |-> NoExc,
                         val |-> "sftp:" \o self.user \o "@" \o self.host \o ":" \o self.path]
                   ELSE [exc |-> NoExc,
                         val |-> "sftp:" \o self.host \o ":" \o self.path]
         ELSE [exc |-> RepositoryError, val |-> None]

get_url(self) ==
    IF self.method = "local"
    THEN IF ~Truthy(self.path)
         THEN [exc |-> RepositoryError, val |-> None]
         ELSE [exc |-> NoExc, val |-> self.path]
    ELSE IF self.method = "sftp"
         THEN IF ~Truthy(self.path)
              THEN [exc |-> RepositoryError, val |-> None]
              ELSE IF ~Truthy(self.host)
                   THEN [exc |-> RepositoryError, val |-> None]
                   ELSE IF Truthy(self.user)
                        THEN [exc |-> NoExc,
                              val |-> "sftp:" \o self.user \o "@" \o self.host \o ":" \o self.path]
                        ELSE [exc |-> NoExc,
                              val |-> "sftp:" \o self.host \o ":" \o self.path]
         ELSE [exc |-> RepositoryError, val |-> None]

\* ---- the engine invoker ---------------------------------------------------
\* restic() with a missing executable handled like a nonzero exit status.
restic_missing_as_failure(url, password, command, args, identity_file, proc) ==
    LET cmd == <<"restic", "-r", url, command>> \o args
               \o (IF Truthy(identity_file)
                   THEN <<"-o", "sftp.args=-i " \o identity_file>>
                   ELSE <<>>)
        child == [argv |-> cmd, RESTIC_PASSWORD |-> password,
                  found |-> proc.found, returncode |-> proc.returncode]
    IN  IF ~proc.found \/ proc.returncode # 0
        THEN [exc |-> ResticError, child |-> child]
        ELSE [exc |-> NoExc, child |-> child]

\* restic() handing the secret to the child on its command line as well.
restic_password_arg(url, password, command, args, identity_file, proc) ==
    LET cmd == <<"restic", "-r", url, command>> \o args
               \o (IF Truthy(identity_file)
                   THEN <<"-o", "sftp.args=-i " \o identity_file>>
                   ELSE <<>>)
               \o <<"--password", password>>
        child == [argv |-> cmd, RESTIC_PASSWORD |-> password,
                  found |-> proc.found, returncode |-> proc.returncode]
    IN  IF ~proc.found
        THEN [exc |-> fatal_error.exc, child |-> child]
        ELSE IF proc.returncode # 0
             THEN [exc |-> ResticError, child |-> child]
             ELSE [exc |-> NoExc, child |-> child]

\* proc is what subprocess.run meets: found = FALSE is FileNotFoundError,
\* otherwise returncode is the engine's exit status.  The result is the
\* exception leaving restic() and the child that was started: its argument
\* vector and the RESTIC_PASSWORD of its environment.
restic(url, password, command, args, identity_file, proc) ==
    LET cmd == <<"restic", "-r", url, command>> \o args
               \o (IF Truthy(identity_file)
                   THEN <<"-o", "sftp.args=-i " \o identity_file>>
                   ELSE <<>>)
        child == [argv |-> cmd, RESTIC_PASSWORD |-> password,
                  found |-> proc.found, returncode |-> proc.returncode]
    IN  IF ~proc.found
        THEN [exc |-> fatal_error.exc, child |-> child]
        ELSE IF proc.returncode # 0
             THEN [exc |-> ResticError, child |-> child]
             ELSE [exc |-> NoExc, child |-> child]

\* _restic with the location error raised only after the child was started.
_restic_spawn_first(self, cmd, args, proc) ==
    LET url == get_url(self)
        pw == get_password(self)
    IN  IF pw.exc # NoExc
        THEN [exc |-> pw.exc, spawned |-> <<>>]
        ELSE [exc |-> IF url.exc # NoExc THEN url.exc ELSE NoExc,
              spawned |-> << [repo |-> self.name, command |-> cmd,
                              argv |-> <<"restic", "-r", url.val, cmd>> \o args,
                              RESTIC_PASSWORD |-> pw.val,
                              found |-> proc.found,
                              returncode |-> proc.returncode] >>]

\* Repository._restic: the arguments get_url() and get_password() are
\* evaluated, in this order, before restic() is entered.  spawned lists the
\* children started (none or one), tagged with the repository and command.
_restic(self, cmd, args, proc) ==
    LET url == get_url(self)
        pw == get_password(self)
    IN  IF url.exc # NoExc
        THEN [exc |-> url.exc, spawned |-> <<>>]
        ELSE IF pw.exc # NoExc
             THEN [exc |-> pw.exc, spawned |-> <<>>]
             ELSE LET r == restic(url.val, pw.val, cmd, args, self.identity_file, proc)
                  IN  [exc |-> r.exc,
                       spawned |-> << [repo |-> self.name, command |-> cmd,
                                       argv |-> r.child.argv,
                                       RESTIC_PASSWORD |-> r.child.RESTIC_PASSWORD,
                                       found |-> r.child.found,
                                       returncode |-> r.child.returncode] >>]

initialize(self, proc) == _restic(self, "init", <<>>, proc)

check(self, proc) == _restic(self, "check", <<>>, proc)

\* Repository.backup with `if host is not None` in place of `if host`.
backup_host_not_none(self, paths, host, proc) ==
    LET args == paths \o (IF host # None THEN <<"--host", host>> ELSE <<>>)
    IN  _restic(self, "backup", args, proc)

backup(self, paths, host, proc) ==
    LET args == paths \o (IF Truthy(host) THEN <<"--host", host>> ELSE <<>>)
    IN  _restic(self, "backup", args, proc)

\* ---- cmd_backup's plan --------------------------------------------------
\* The loop that fills backups_by_host: a dict keyed by host in order of
\* first insertion, each value the list of the jobs of that host.
\* The grouping loop putting each job at the front of its host's list.
RECURSIVE group_by_host_prepend(_, _)
group_by_host_prepend(bs, acc) ==
    IF bs = <<>>
    THEN acc
    ELSE LET b == Head(bs)
         IN  IF \E g \in 1..Len(acc) : acc[g].host = b.host
             THEN LET g == CHOOSE g \in 1..Len(acc) : acc[g].host = b.host
                  IN  group_by_host_prepend(Tail(bs), [acc EXCEPT ![g].jobs = <<b>> \o @])
             ELSE group_by_host_prepend(Tail(bs), Append(acc, [host |-> b.host, jobs |-> <<b>>]))

RECURSIVE group_by_host(_, _)
group_by_host(bs, acc) ==
    IF bs = <<>>
    THEN acc
    ELSE LET b == Head(bs)
         IN  IF \E g \in 1..Len(acc) : acc[g].host = b.host
             THEN LET g == CHOOSE g \in 1..Len(acc) : acc[g].host = b.host
                  IN  group_by_host(Tail(bs), [acc EXCEPT ![g].jobs = Append(@, b)])
             ELSE group_by_host(Tail(bs), Append(acc, [host |-> b.host, jobs |-> <<b>>]))

\* `repo.name in b.repos`
InRepos(name, b) == \E k \in 1..Len(b.repos) : b.repos[k] = name

\* repo_backups = [b for b in backups_by_host[host] if repo.name in b.repos]
repo_backups(name, jobs) == SelectSeq(jobs, LAMBDA b : InRepos(name, b))

\* The paths of all the jobs of the host, whatever repositories they name.
paths_unfiltered(name, jobs) ==
    [k \in 1..Len(jobs) |-> jobs[k].path]

\* paths = [b.path for b in repo_backups]
paths(name, jobs) ==
    LET rb == repo_backups(name, jobs)
    IN  [k \in 1..Len(rb) |-> rb[k].path]

\* ---- state --------------------------------------------------------------
VARIABLES
    func,             \* args.func: the sub-command chosen on the command line
    repos,            \* the Repository list read_config returns
    backups,          \* the Operation list read_config returns (kept by cmd_backup only)
    engine,           \* per repository: the exit status the engine gives to init
                      \* and to the first and the second check of that repository
    pc,               \* "main", a loop, or terminated: "done" / "exit"
    i,                \* index of `repo` in the running `for repo in repos`
    h,                \* index of `host` in cmd_backup's `for host in backups_by_host`
    backups_by_host,  \* cmd_backup's dict
    success,          \* cmd_init's list
    fails,            \* cmd_init's list
    log,              \* the children started so far, in order
    uncaught,         \* the exception that ended the process, or NoExc
    exitcode          \* the process exit status once terminated, else -1

vars == <<func, repos, backups, engine, pc, i, h, backups_by_host,
          success, fails, log, uncaught, exitcode>>

Running == -1

\* ---- the environment ----------------------------------------------------
\* Number of children already started for `command` on repository `name`.
Calls(name, command) ==
    Cardinality({k \in 1..Len(log) : log[k].repo = name /\ log[k].command = command})

\* The exit statuses the engine may give to the next `command` on `name`:
\* init and check answer as the repository's health says, backup may go
\* either way.
ExitStatuses(name, command) ==
    IF command = "init"
    THEN {engine[name].init}
    ELSE IF command = "check"
         THEN {engine[name].check[IF Calls(name, "check") = 0 THEN 1 ELSE 2]}
         ELSE {0, 1}

\* What subprocess.run may meet: the executable is missing, or it runs.
Subprocess(name, command) ==
    {[found |-> FALSE, returncode |-> Running]}
    \cup {[found |-> TRUE, returncode |-> rc] : rc \in ExitStatuses(name, command)}

\* ---- initial states: the parsed command line and configuration ----------
Health == [init : {0, 1}, check : [1..2 -> {0, 1}]]

ReposLists == UNION {[1..k -> {RepoNames[n] : n \in 1..MaxRepos} \cup {Undeclared}] : k \in 0..MaxJobRepos}

Healthy == [init |-> 0, check |-> <<0, 0>>]

\* The configurations of at most MaxRepos repositories, declared under the
\* names RepoNames[1], RepoNames[2], ... in this order.
Configs(n) ==
    {rs \in [1..n -> UNION {Repository(RepoNames[k]) : k \in 1..n}] :
        \A k \in 1..n : rs[k].name = RepoNames[k]}

\* The job lists of m jobs whose (host, repos) are drawn from HR.
Jobs(m, HR) ==
    {[j \in 1..m |-> [host |-> hr[j][1], path |-> JobPaths[j], repos |-> hr[j][2]]] :
        hr \in [1..m -> HR]}

Start ==
    /\ pc = "main"
    /\ i = 0
    /\ h = 0
    /\ backups_by_host = <<>>
    /\ success = <<>>
    /\ fails = <<>>
    /\ log = <<>>
    /\ uncaught = NoExc
    /\ exitcode = Running

\* Any sub-command on any configuration.  cmd_init and cmd_check drop the job
\* list read_config returns, so it is left empty for them; cmd_backup starts
\* no init and no check, so the health of the repositories, which only those
\* two commands read, is left healthy for it (InitHeal varies it).
Init ==
    /\ func \in {"init", "check", "backup"}
    /\ \E n \in 0..MaxRepos :
         /\ repos \in Configs(n)
         /\ engine \in [{RepoNames[k] : k \in 1..n} ->
                           IF func = "backup" THEN {Healthy} ELSE Health]
    /\ \E m \in 0..(IF func = "backup" THEN MaxJobs ELSE 0) :
         backups \in Jobs(m, JobHosts \X ReposLists)
    /\ Start

\* cmd_backup on repositories of any health; every job names all the
\* declared repositories or none.
InitHeal ==
    /\ func = "backup"
    /\ \E n \in 0..MaxRepos :
         /\ repos \in Configs(n)
         /\ engine \in [{RepoNames[k] : k \in 1..n} -> Health]
         /\ \E m \in 0..MaxJobs :
              backups \in Jobs(m, JobHosts \X {<<>>, [k \in 1..n |-> RepoNames[k]]})
    /\ Start

\* ---- process termination ------------------------------------------------
\* An exception nothing catches ends the process with status 1 (sys.exit(1)
\* for SystemExit, the interpreter's traceback exit for the others).
Die(exc) ==
    /\ pc' = "exit"
    /\ uncaught' = exc
    /\ exitcode' = 1

\* The sub-command returned: the script ends, status 0.
Return ==
    /\ pc' = "done"
    /\ exitcode' = 0
    /\ UNCHANGED uncaught

\* ---- cmd_init -----------------------------------------------------------
CmdInitBegin ==
    /\ pc = "main" /\ func = "init"
    /\ pc' = "init"
    /\ i' = 1
    /\ success' = <<>>
    /\ fails' = <<>>
    /\ UNCHANGED <<func, repos, backups, engine, h, backups_by_host, log, uncaught, exitcode>>

\* cmd_init's iteration without the `except ResticError`.
CmdInitStep_uncaught ==
    /\ pc = "init" /\ i <= Len(repos)
    /\ \E proc \in Subprocess(repos[i].name, "init") :
         LET r == initialize(repos[i], proc)
         IN  /\ log' = log \o r.spawned
             /\ IF r.exc = NoExc
                THEN /\ success' = Append(success, repos[i].name)
                     /\ i' = i + 1
                     /\ UNCHANGED <<fails, pc, uncaught, exitcode>>
                ELSE /\ Die(r.exc)
                     /\ UNCHANGED <<success, fails, i>>
    /\ UNCHANGED <<func, repos, backups, engine, h, backups_by_host>>

\* One iteration of `for repo in repos`: try initialize, except ResticError.
CmdInitStep ==
    /\ pc = "init" /\ i <= Len(repos)
    /\ \E proc \in Subprocess(repos[i].name, "init") :
         LET r == initialize(repos[i], proc)
         IN  /\ log' = log \o r.spawned
             /\ IF r.exc = NoExc
                THEN /\ success' = Append(success, repos[i].name)
                     /\ i' = i + 1
                     /\ UNCHANGED <<fails, pc, uncaught, exitcode>>
                ELSE IF r.exc = ResticError
                     THEN /\ fails' = Append(fails, repos[i].name)
                          /\ i' = i + 1
                          /\ UNCHANGED <<success, pc, uncaught, exitcode>>
                     ELSE /\ Die(r.exc)
                          /\ UNCHANGED <<success, fails, i>>
    /\ UNCHANGED <<func, repos, backups, engine, h, backups_by_host>>

\* The loop is over: the two summaries are printed and cmd_init returns.
CmdInitEnd ==
    /\ pc = "init" /\ i > Len(repos)
    /\ Return
    /\ UNCHANGED <<func, repos, backups, engine, i, h, backups_by_host, success, fails, log>>

\* ---- cmd_check ----------------------------------------------------------
CmdCheckBegin ==
    /\ pc = "main" /\ func = "check"
    /\ pc' = "check"
    /\ i' = 1
    /\ UNCHANGED <<func, repos, backups, engine, h, backups_by_host, success, fails,
                   log, uncaught, exitcode>>

\* One iteration of `for repo in repos`: repo.check(), nothing caught.
CmdCheckStep ==
    /\ pc = "check" /\ i <= Len(repos)
    /\ \E proc \in Subprocess(repos[i].name, "check") :
         LET r == check(repos[i], proc)
         IN  /\ log' = log \o r.spawned
             /\ IF r.exc = NoExc
                THEN /\ i' = i + 1
                     /\ UNCHANGED <<pc, uncaught, exitcode>>
                ELSE /\ Die(r.exc)
                     /\ UNCHANGED i
    /\ UNCHANGED <<func, repos, backups, engine, h, backups_by_host, success, fails>>

CmdCheckEnd ==
    /\ pc = "check" /\ i > Len(repos)
    /\ Return
    /\ UNCHANGED <<func, repos, backups, engine, i, h, backups_by_host, success, fails, log>>

\* ---- cmd_backup ---------------------------------------------------------
\* read_config rejecting a job that names a repository nobody declared.
CmdBackupBegin_strict ==
    /\ pc = "main" /\ func = "backup"
    /\ backups_by_host' = group_by_host(backups, <<>>)
    /\ i' = 1
    /\ h' = 1
    /\ IF \E j \in 1..Len(backups) : \E n \in 1..Len(backups[j].repos) :
             \A k \in 1..Len(repos) : repos[k].name # backups[j].repos[n]
       THEN Die(fatal_error.exc)
       ELSE pc' = "backup" /\ UNCHANGED <<uncaught, exitcode>>
    /\ UNCHANGED <<func, repos, backups, engine, success, fails, log>>

\* read_config and the grouping loop.
CmdBackupBegin ==
    /\ pc = "main" /\ func = "backup"
    /\ backups_by_host' = group_by_host(backups, <<>>)
    /\ pc' = "backup"
    /\ i' = 1
    /\ h' = 1
    /\ UNCHANGED <<func, repos, backups, engine, success, fails, log, uncaught, exitcode>>

\* The two loops nested the other way round: `for repo in repos` inside
\* `for host in backups_by_host`.
CmdBackupStep_host_major ==
    /\ pc = "backup" /\ i <= Len(repos) /\ h <= Len(backups_by_host)
    /\ \E proc \in Subprocess(repos[i].name, "backup") :
         LET host == backups_by_host[h].host
             r == backup(repos[i], paths(repos[i].name, backups_by_host[h].jobs), host, proc)
         IN  /\ log' = log \o r.spawned
             /\ IF r.exc = NoExc
                THEN /\ IF i < Len(repos)
                        THEN i' = i + 1 /\ h' = h
                        ELSE IF h < Len(backups_by_host)
                             THEN i' = 1 /\ h' = h + 1
                             ELSE i' = Len(repos) + 1 /\ h' = 1
                     /\ UNCHANGED <<pc, uncaught, exitcode>>
                ELSE /\ Die(r.exc)
                     /\ UNCHANGED <<i, h>>
    /\ UNCHANGED <<func, repos, backups, engine, backups_by_host, success, fails>>

\* One iteration of `for host in backups_by_host` inside `for repo in repos`:
\* the paths are computed and repo.backup is called, nothing caught.
CmdBackupStep ==
    /\ pc = "backup" /\ i <= Len(repos) /\ h <= Len(backups_by_host)
    /\ \E proc \in Subprocess(repos[i].name, "backup") :
         LET host == backups_by_host[h].host
             r == backup(repos[i], paths(repos[i].name, backups_by_host[h].jobs), host, proc)
         IN  /\ log' = log \o r.spawned
             /\ IF r.exc = NoExc
                THEN /\ IF h < Len(backups_by_host)
                        THEN h' = h + 1 /\ i' = i
                        ELSE h' = 1 /\ i' = i + 1
                     /\ UNCHANGED <<pc, uncaught, exitcode>>
                ELSE /\ Die(r.exc)
                     /\ UNCHANGED <<i, h>>
    /\ UNCHANGED <<func, repos, backups, engine, backups_by_host, success, fails>>

\* Both loops are over (with no job at all the inner loop has no iteration).
CmdBackupEnd ==
    /\ pc = "backup" /\ (i > Len(repos) \/ Len(backups_by_host) = 0)
    /\ Return
    /\ UNCHANGED <<func, repos, backups, engine, i, h, backups_by_host, success, fails, log>>

Next ==
    \/ CmdInitBegin
    \/ CmdInitStep
    \/ CmdInitEnd
    \/ CmdCheckBegin
    \/ CmdCheckStep
    \/ CmdCheckEnd
    \/ CmdBackupBegin
    \/ CmdBackupStep
    \/ CmdBackupEnd

Spec == Init /\ [][Next]_vars

NextBackup ==
    \/ CmdBackupBegin
    \/ CmdBackupStep
    \/ CmdBackupEnd

SpecHeal == InitHeal /\ [][NextBackup]_vars

\* ---- one repository of any field values ----------------------------------
\* Every combination of the fields get_url and get_password read, each
\* Optional[str] absent, empty or set, declared under `name`.
RepositoryFields(name) ==
    [name : {name},
     method : {"local", "sftp", "s3"},
     path : {None, "", "/p"},
     host : {None, "", "h.example"},
     user : {None, "", "u"},
     password : {None, "", "inline-secret"},
     password_env : {None, "PW", "NOPW"},
     identity_file : {None, "id_rsa"}]

\* cmd_check on a configuration of one such repository.
InitRepo ==
    /\ func = "check"
    /\ repos \in {<<r>> : r \in RepositoryFields(RepoNames[1])}
    /\ engine \in [{RepoNames[1]} -> Health]
    /\ backups = <<>>
    /\ Start

NextCheck ==
    \/ CmdCheckBegin
    \/ CmdCheckStep
    \/ CmdCheckEnd

SpecRepo == InitRepo /\ [][NextCheck]_vars

\* ---- cmd_backup on one repository and longer job lists --------------------
\* Up to MaxGroupJobs jobs of any host, each naming the repository or not.
InitGroup ==
    /\ func = "backup"
    /\ repos \in Configs(1)
    /\ engine \in [{RepoNames[1]} -> {Healthy}]
    /\ \E m \in 0..MaxGroupJobs :
         backups \in Jobs(m, JobHosts \X {<<>>, <<RepoNames[1]>>})
    /\ Start

SpecGroup == InitGroup /\ [][NextBackup]_vars

\* ---- vocabulary of the properties ----------------------------------------
Count(seq, x) == Cardinality({k \in 1..Len(seq) : seq[k] = x})

Terminated == pc \in {"done", "exit"}

\* The declared repositories' names.
Declared == {repos[k].name : k \in 1..Len(repos)}

RepoOf(name) == repos[CHOOSE k \in 1..Len(repos) : repos[k].name = name]

\* The children started for `command` on `name`.
Children(name, command) ==
    {k \in 1..Len(log) : log[k].repo = name /\ log[k].command = command}

\* The location of the repository cannot be resolved: path missing, sftp
\* without host, or a method that is neither local nor sftp.
Unresolvable(r) ==
    \/ r.path = None
    \/ r.method = "sftp" /\ r.host = None
    \/ r.method \notin {"local", "sftp"}

\* The secret of the repository cannot be resolved: only password_env is
\* set and the environment has no such variable.
SecretMissing(r) ==
    r.password = None /\ r.password_env # None /\ r.password_env \notin DOMAIN environ

\* Every declared repository can be handed to the engine, and every child
\* started so far found the executable: the run consists of engine exit
\* statuses only.
EngineAnswers ==
    /\ \A k \in 1..Len(repos) : ~Unresolvable(repos[k]) /\ ~SecretMissing(repos[k])
    /\ \A k \in 1..Len(log) : log[k].found

\* ---- C1 -----------------------------------------------------------------
\* C1: initialize-all.  In a cmd_init run made of engine exit statuses only
\* (zero or nonzero for each repository), the batch is never cut short, init
\* is started exactly once on every repository the loop has passed (all of
\* them at the end), and each such name is in exactly one of success and
\* fails, in fails if and only if its init exited nonzero.
C1_InitAll ==
    (func = "init" /\ EngineAnswers) =>
        /\ pc # "exit"
        /\ \A k \in 1..Len(repos) :
             LET name == repos[k].name
             IN  IF pc = "done" \/ (pc = "init" /\ k < i)
                 THEN /\ Cardinality(Children(name, "init")) = 1
                      /\ Count(success, name) + Count(fails, name) = 1
                      /\ Count(fails, name) = 1 <=>
                           \E c \in Children(name, "init") : log[c].returncode # 0
                      /\ Count(fails, name) = 1 <=> engine[name].init # 0
                 ELSE /\ Children(name, "init") = {}
                      /\ Count(success, name) + Count(fails, name) = 0

\* A finished batch of at least two repositories with exactly one failure.
C1_Witness ==
    /\ func = "init" /\ pc = "done" /\ EngineAnswers
    /\ Len(repos) >= 2
    /\ Len(fails) = 1
    /\ Len(success) = Len(repos) - 1

\* ---- C2 .. C7: backup-all ------------------------------------------------
\* The arguments a child was given after the sub-command, without the
\* trailing identity-file option of its repository.
Args(e) ==
    LET opt == IF Truthy(RepoOf(e.repo).identity_file) THEN 2 ELSE 0
    IN  SubSeq(e.argv, 5, Len(e.argv) - opt)

\* The configuration's plan, read off the job list itself: the paths of the
\* jobs tagged `host` that name `name`, in configuration order.
PlanJobs(name, host) ==
    SelectSeq(backups, LAMBDA b : b.host = host /\ \E n \in DOMAIN b.repos : b.repos[n] = name)

PlanPaths(name, host) ==
    LET js == PlanJobs(name, host)
    IN  [n \in 1..Len(js) |-> js[n].path]

\* The host groups of the configuration under which `name` has a job.
PlanHosts(name) ==
    {backups[j].host : j \in {n \in 1..Len(backups) : PlanJobs(name, backups[n].host) # <<>>}}

\* The backup children of `name` that carry exactly the plan's paths of `host`.
BackupsOf(name, host) ==
    {c \in Children(name, "backup") :
        /\ Len(Args(log[c])) >= Len(PlanPaths(name, host))
        /\ SubSeq(Args(log[c]), 1, Len(PlanPaths(name, host))) = PlanPaths(name, host)}

\* The engine can be run on repos[k], and some job names it.
HasWork(k) ==
    /\ ~Unresolvable(repos[k]) /\ ~SecretMissing(repos[k])
    /\ PlanHosts(repos[k].name) # {}

\* C2: self-healing.  At the end of a backup-all run, a repository with a
\* job whose first check exits nonzero and whose init and second check exit
\* zero has had exactly one init, and exactly one backup per host group
\* under which it has a job.
C2_SelfHealing ==
    \A k \in 1..Len(repos) :
        LET name == repos[k].name
        IN  (/\ func = "backup" /\ pc = "done" /\ HasWork(k)
             /\ engine[name].check = <<1, 0>> /\ engine[name].init = 0) =>
                /\ Cardinality(Children(name, "init")) = 1
                /\ \A host \in PlanHosts(name) : Cardinality(BackupsOf(name, host)) = 1

\* C3: self-healing exhaustion.  A repository with a job whose check, init and second
\* check all exit nonzero never has a backup run on it in a backup-all run; it
\* is recorded as failed once the run is over, and the run is not ended by
\* it: the other repositories get their backups.
C3_Exhaustion ==
    \A k \in 1..Len(repos) :
        LET name == repos[k].name
        IN  (/\ func = "backup" /\ HasWork(k)
             /\ engine[name].check = <<1, 1>> /\ engine[name].init = 1) =>
                /\ \A c \in Children(name, "backup") : ~log[c].found
                /\ Terminated => Count(fails, name) = 1
                /\ (Terminated /\ EngineAnswers) =>
                      \A o \in Declared \ {name} : \A host \in PlanHosts(o) :
                          engine[o] = Healthy => BackupsOf(o, host) # {}

\* C4: every backup the engine runs is preceded, in the same run, by a check
\* child of the same repository that exited zero.
C4_BackupOnlyWhenReady ==
    \A c \in 1..Len(log) :
        (log[c].command = "backup" /\ log[c].found) =>
            \E j \in 1..(c - 1) :
                /\ log[j].repo = log[c].repo
                /\ log[j].command = "check"
                /\ log[j].found /\ log[j].returncode = 0

\* C5: failure isolation in backup-all.  In a run made of engine exit
\* statuses only, a nonzero exit of a backup never ends the process, and at
\* the end every repository has had a backup for every host group under
\* which it has a job.
C5_BackupIsolation ==
    (func = "backup" /\ EngineAnswers) =>
        /\ pc # "exit"
        /\ pc = "done" =>
             \A name \in Declared : \A host \in PlanHosts(name) : BackupsOf(name, host) # {}

\* C6: in a backup-all run where every engine call exits zero, the number of
\* backup children of a repository is the number of host groups under which
\* it has a job, one child for each such group: none for a (repository, host
\* group) pair whose job list is empty.
C6_OncePerNonEmptyPair ==
    (/\ func = "backup" /\ pc = "done"
     /\ \A c \in 1..Len(log) : log[c].found /\ log[c].returncode = 0) =>
        \A name \in Declared :
            /\ \A host \in PlanHosts(name) : Cardinality(BackupsOf(name, host)) = 1
            /\ Cardinality(Children(name, "backup")) = Cardinality(PlanHosts(name))

\* C7 as claimed: the backup child started for repository repos[i] under
\* host group backups_by_host[h].host carries exactly the plan's paths of
\* that pair, followed by `--host H` if and only if the host tag H is present.
C7_ArgsAsClaimed ==
    [][(Len(log') = Len(log) + 1 /\ log'[Len(log')].command = "backup") =>
          LET e == log'[Len(log')]
              H == backups_by_host[h].host
          IN  /\ e.repo = repos[i].name
              /\ \E j \in 1..Len(backups) : backups[j].host = H
              /\ Args(e) = PlanPaths(e.repo, H)
                           \o (IF H # None THEN <<"--host", H>> ELSE <<>>)]_vars

\* C7, amended: as above, with `--host H` carried if and only if the host
\* tag H is present and not the empty string.
C7_BackupArgs ==
    [][(Len(log') = Len(log) + 1 /\ log'[Len(log')].command = "backup") =>
          LET e == log'[Len(log')]
              H == backups_by_host[h].host
          IN  /\ e.repo = repos[i].name
              /\ \E j \in 1..Len(backups) : backups[j].host = H
              /\ Args(e) = PlanPaths(e.repo, H)
                           \o (IF H # None /\ H # "" THEN <<"--host", H>> ELSE <<>>)]_vars

\* A backup child carrying the two paths of a labelled host group, started
\* for the second repository of the run.
C7_Witness ==
    /\ Len(log) >= 2
    /\ log[Len(log)].command = "backup"
    /\ Args(log[Len(log)]) = <<JobPaths[1], JobPaths[2], "--host", "prod">>

\* ---- C8 -----------------------------------------------------------------
\* C8: engine not found is fatal in every sub-command.  A child whose
\* executable could not be started is the last child of the run: the process
\* has ended with a nonzero status through sys.exit, and the repository is in
\* neither of cmd_init's lists.
C8_NotFoundFatal ==
    \A k \in 1..Len(log) :
        ~log[k].found =>
            /\ k = Len(log)
            /\ pc = "exit"
            /\ uncaught = SystemExit
            /\ exitcode > 0
            /\ Count(fails, log[k].repo) = 0
            /\ Count(success, log[k].repo) = 0

\* The executable goes missing in cmd_init after one repository has failed
\* and while repositories remain.
C8_Witness ==
    /\ func = "init"
    /\ Len(log) >= 2
    /\ ~log[Len(log)].found
    /\ Len(fails) >= 1
    /\ i <= Len(repos)

\* ---- C9 -----------------------------------------------------------------
\* C9: check-all.  A cmd_check run made of engine exit statuses only ends
\* with exactly one check child per declared repository, in declaration
\* order, whatever the exit statuses.
C9_CheckAll ==
    (func = "check" /\ Terminated /\ EngineAnswers) =>
        /\ Len(log) = Len(repos)
        /\ \A k \in 1..Len(repos) :
             log[k].repo = repos[k].name /\ log[k].command = "check"

\* ---- C10 ----------------------------------------------------------------
\* C10: no child is ever started for a repository whose location cannot be
\* resolved, whatever the sub-command; a process that ends at such a
\* repository ends with the RepositoryError, raised before any child.
C10_NoSpawnUnresolvable ==
    \A k \in 1..Len(repos) :
        Unresolvable(repos[k]) =>
            /\ \A c \in 1..Len(log) : log[c].repo # repos[k].name
            /\ (pc = "exit" /\ i = k) => uncaught = RepositoryError

\* The loop has reached an unresolvable repository after starting a child
\* for an earlier one.
C10_Witness ==
    /\ pc = "exit" /\ uncaught = RepositoryError
    /\ i > 1 /\ i <= Len(repos)
    /\ Unresolvable(repos[i])
    /\ Len(log) >= 1

\* ---- reference functions of the Repository Descriptor ---------------------
\* The reference location of the claim; a field is absent when it is None or
\* the empty string, set otherwise.
Absent(x) == x = None \/ x = ""

NoLocation == "<RepositoryConfigError>"

RefLocation(r) ==
    CASE r.method \notin {"local", "sftp"} -> NoLocation
      [] r.method \in {"local", "sftp"} /\ Absent(r.path) -> NoLocation
      [] r.method = "sftp" /\ ~Absent(r.path) /\ Absent(r.host) -> NoLocation
      [] r.method = "local" /\ ~Absent(r.path) -> r.path
      [] r.method = "sftp" /\ ~Absent(r.path) /\ ~Absent(r.host) /\ ~Absent(r.user) ->
            "sftp:" \o r.user \o "@" \o r.host \o ":" \o r.path
      [] r.method = "sftp" /\ ~Absent(r.path) /\ ~Absent(r.host) /\ Absent(r.user) ->
            "sftp:" \o r.host \o ":" \o r.path

NoSecret == "<ConfigurationError>"

\* The reference secret of the claim: inline first, then the environment
\* variable, the fallback only when neither is set.
RefSecret(r) ==
    CASE r.password # None -> r.password
      [] r.password = None /\ r.password_env # None /\ r.password_env \in DOMAIN environ ->
            environ[r.password_env]
      [] r.password = None /\ r.password_env # None /\ r.password_env \notin DOMAIN environ ->
            NoSecret
      [] r.password = None /\ r.password_env = None -> "123"

\* ---- C11 .. C14: what a failure of one repository does to the run -------
\* repos[k] has been attempted by the running sub-command: a child of that
\* sub-command was started for it (for backup: one for every host group
\* under which it has a job).
Attempted(k) ==
    IF func = "backup"
    THEN \A host \in PlanHosts(repos[k].name) : BackupsOf(repos[k].name, host) # {}
    ELSE Children(repos[k].name, func) # {}

\* Every child started so far found the executable and exited zero.
AllZero == \A c \in 1..Len(log) : log[c].found /\ log[c].returncode = 0

\* C11: a location error of one repository is confined to it.  In every
\* sub-command no RepositoryError ends the process, and a run in which
\* nothing else fails ends with every resolvable repository attempted.
C11_LocationErrorConfined ==
    /\ uncaught # RepositoryError
    /\ (Terminated /\ AllZero /\ \A k \in 1..Len(repos) : ~SecretMissing(repos[k])) =>
          \A k \in 1..Len(repos) : ~Unresolvable(repos[k]) => Attempted(k)

\* C12: a missing secret variable is fatal to its repository only.  The
\* process is never ended by sys.exit at a repository whose secret variable
\* is missing, and a run in which nothing else fails ends with every other
\* repository attempted.
C12_MissingSecretConfined ==
    /\ \A k \in 1..Len(repos) :
          (SecretMissing(repos[k]) /\ ~Unresolvable(repos[k])) =>
              ~(pc = "exit" /\ i = k /\ uncaught = SystemExit /\ AllZero)
    /\ (Terminated /\ AllZero /\ \A k \in 1..Len(repos) : ~Unresolvable(repos[k])) =>
          \A k \in 1..Len(repos) : ~SecretMissing(repos[k]) => Attempted(k)

\* C13: the secret reaches the child through RESTIC_PASSWORD only.  Every
\* child has the secret of its repository as RESTIC_PASSWORD; every element
\* of its argument vector is made of the configuration's non-secret fields
\* and none is the secret; and the same invocation with another secret has
\* the same argument vector.
PublicTokens ==
    {"restic", "-r", "-o", "--host", "init", "check", "backup"}
    \cup {RefLocation(repos[k]) : k \in 1..Len(repos)}
    \cup {"sftp.args=-i " \o repos[k].identity_file : k \in 1..Len(repos)}
    \cup {backups[j].path : j \in 1..Len(backups)}
    \cup {backups[j].host : j \in 1..Len(backups)}

C13_SecretOnlyInEnv ==
    \A c \in 1..Len(log) :
        LET e == log[c]
            r == RepoOf(e.repo)
            again == restic(e.argv[3], "another-secret", e.command, Args(e),
                            r.identity_file, [found |-> e.found, returncode |-> e.returncode])
        IN  /\ e.RESTIC_PASSWORD = RefSecret(r)
            /\ \A n \in 1..Len(e.argv) : e.argv[n] \in PublicTokens /\ e.argv[n] # e.RESTIC_PASSWORD
            /\ again.child.argv = e.argv
            /\ again.child.RESTIC_PASSWORD = "another-secret"

\* A backup child with source path, host label and identity-file option,
\* given the secret read from the environment.
C13_Witness ==
    /\ Len(log) >= 1
    /\ log[Len(log)].command = "backup"
    /\ log[Len(log)].RESTIC_PASSWORD = environ.PW
    /\ Len(log[Len(log)].argv) >= 9

\* C14: in a cmd_init or cmd_backup run made of engine exit statuses only
\* (the engine is found, the configuration is usable), the process exit
\* status is 0 however many engine calls exited nonzero.
C14_ExitCodeZero ==
    (func \in {"init", "backup"} /\ Terminated /\ EngineAnswers) => exitcode = 0

\* ---- C16 ----------------------------------------------------------------
\* C16: resolve_location equals the reference for every combination of
\* method, path, host and user.  Every child is started on the reference
\* location of its repository; a process ended by RepositoryError ended at a
\* repository with no reference location, and a run that reaches such a
\* repository ends with RepositoryError.
C16_Location ==
    /\ \A c \in 1..Len(log) : log[c].argv[3] = RefLocation(RepoOf(log[c].repo))
    /\ uncaught = RepositoryError => RefLocation(repos[i]) = NoLocation
    /\ (pc = "exit" /\ RefLocation(repos[i]) = NoLocation) => uncaught = RepositoryError

\* A child started on an sftp location with a user.
C16_Witness ==
    /\ Len(log) = 1
    /\ RepoOf(log[1].repo).method = "sftp"
    /\ log[1].argv[3] = "sftp:u@h.example:/p"

\* ---- C17 ----------------------------------------------------------------
\* C17: resolve_secret follows the precedence for every combination of
\* inline password, password_env and environment.  Every child gets the
\* reference secret of its repository as RESTIC_PASSWORD; a run that reaches
\* a resolvable repository with no reference secret fails there before any
\* child, and no run fails so at a repository that has a reference secret.
C17_Secret ==
    /\ \A c \in 1..Len(log) : log[c].RESTIC_PASSWORD = RefSecret(RepoOf(log[c].repo))
    /\ (pc = "exit" /\ RefLocation(repos[i]) # NoLocation /\ RefSecret(repos[i]) = NoSecret) =>
          /\ uncaught = SystemExit
          /\ Children(repos[i].name, "check") = {}
    /\ (pc = "exit" /\ uncaught = SystemExit /\ Children(repos[i].name, "check") = {}) =>
          RefSecret(repos[i]) = NoSecret

\* A child given the inline secret although password_env names a variable.
C17_Witness ==
    /\ Len(log) = 1
    /\ RepoOf(log[1].repo).password_env = "NOPW"
    /\ log[1].RESTIC_PASSWORD = "inline-secret"

\* ---- C15: the grouping by host --------------------------------------------
\* Index of the first job of `host` in the configuration.
FirstJob(host) ==
    CHOOSE j \in 1..Len(backups) :
        /\ backups[j].host = host
        /\ \A n \in 1..(j - 1) : backups[n].host # host

\* C15: once cmd_backup has built backups_by_host, it is a stable partition
\* of the job list: every job is at exactly one place of exactly one group,
\* the keys are the distinct hosts of the jobs (None being a key of its own)
\* in order of first appearance, and each group is the sub-list of the jobs
\* of its key, in input order.
C15_StablePartition ==
    (func = "backup" /\ pc # "main") =>
        LET G == backups_by_host
        IN  /\ \A j \in 1..Len(backups) :
                  Cardinality({gk \in {<<g, k>> : g \in 1..Len(G), k \in 1..MaxGroupJobs + 1} :
                                  /\ gk[2] <= Len(G[gk[1]].jobs)
                                  /\ G[gk[1]].jobs[gk[2]] = backups[j]}) = 1
            /\ {G[g].host : g \in 1..Len(G)} = {backups[j].host : j \in 1..Len(backups)}
            /\ \A g1, g2 \in 1..Len(G) :
                  g1 < g2 => /\ G[g1].host # G[g2].host
                             /\ FirstJob(G[g1].host) < FirstJob(G[g2].host)
            /\ \A g \in 1..Len(G) :
                  G[g].jobs = SelectSeq(backups, LAMBDA b : b.host = G[g].host)

\* Three groups built from interleaved jobs: the first and the last job share
\* a host, two other hosts come between them.
C15_Witness ==
    /\ func = "backup" /\ pc # "main"
    /\ Len(backups) = 4
    /\ Len(backups_by_host) = 3
    /\ backups[1].host = backups[4].host
    /\ Len(backups_by_host[1].jobs) = 2
    /\ backups_by_host[1].host = None

\* ---- C18: the order of the backups ----------------------------------------
\* Position of the repository `name` in the declaration order.
RepoIdx(name) == CHOOSE k \in 1..Len(repos) : repos[k].name = name

\* The arguments of the backup of `name` under `host`: the plan's paths, then
\* the label when the host is set and non-empty.
PlanArgs(name, host) ==
    PlanPaths(name, host) \o (IF Truthy(host) THEN <<"--host", host>> ELSE <<>>)

\* The host groups a backup child can be the invocation of.
HostsOf(c) ==
    {host \in {backups[j].host : j \in 1..Len(backups)} :
        Args(log[c]) = PlanArgs(log[c].repo, host)}

\* C18 as stated: host group by host group, and repository by repository
\* within a host group.  Of two children of a backup-all run, the earlier is
\* of an earlier host group, or of the same host group and an earlier
\* repository.
C18_HostGroupMajor ==
    func = "backup" =>
        \A c1, c2 \in 1..Len(log) :
            c1 < c2 =>
                \E h1 \in HostsOf(c1), h2 \in HostsOf(c2) :
                    \/ FirstJob(h1) < FirstJob(h2)
                    \/ h1 = h2 /\ RepoIdx(log[c1].repo) < RepoIdx(log[c2].repo)

\* C18, amended: repository by repository in declaration order, and host
\* group by host group in order of first appearance within a repository.
\* Of two children of a backup-all run, the earlier is of an earlier
\* repository, or of the same repository and an earlier host group.
C18_RepositoryMajor ==
    func = "backup" =>
        \A c1, c2 \in 1..Len(log) :
            c1 < c2 =>
                \/ RepoIdx(log[c1].repo) < RepoIdx(log[c2].repo)
                \/ /\ log[c1].repo = log[c2].repo
                   /\ \E h1 \in HostsOf(c1), h2 \in HostsOf(c2) : FirstJob(h1) < FirstJob(h2)

\* Two repositories and two host groups, each of the four backups with a
\* source path: the second child is of the first repository and the second
\* host group, the third of the second repository and the first host group.
C18_Witness ==
    /\ func = "backup" /\ pc = "done"
    /\ Len(repos) = 2 /\ Len(backups_by_host) = 2
    /\ Len(log) = 4
    /\ \A c \in 1..4 : Len(PlanPaths(log[c].repo, backups_by_host[2 - (c % 2)].host)) = 1
    /\ HostsOf(2) = {backups_by_host[2].host} /\ log[2].repo = repos[1].name
    /\ HostsOf(3) = {backups_by_host[1].host} /\ log[3].repo = repos[2].name

\* ---- C19: jobs naming a repository nobody declared -------------------------
\* Job j names a repository that is not declared.
NamesUndeclared(j) ==
    \E n \in 1..Len(backups[j].repos) : backups[j].repos[n] \notin Declared

\* Some backup child of `name` has `path` among its arguments.
BackedUp(path, name) ==
    \E c \in Children(name, "backup") :
        \E n \in 1..Len(Args(log[c])) : Args(log[c])[n] = path

\* C19: in a backup-all run every child is started on a declared repository
\* at that repository's location; the run ends in error only on a declared
\* repository that cannot be handed to the engine or on a child that failed,
\* whatever names the jobs carry; and when it ends normally the path of
\* every job, the jobs naming an undeclared repository included, is backed up
\* to every declared repository the job names.
C19_UndeclaredIgnored ==
    func = "backup" =>
        /\ \A c \in 1..Len(log) :
              /\ log[c].repo \in Declared
              /\ log[c].argv[3] = RefLocation(RepoOf(log[c].repo))
        /\ pc = "exit" =>
              /\ i \in 1..Len(repos)
              /\ \/ Unresolvable(repos[i])
                 \/ SecretMissing(repos[i])
                 \/ /\ Len(log) > 0
                    /\ log[Len(log)].repo = repos[i].name
                    /\ ~log[Len(log)].found \/ log[Len(log)].returncode # 0
        /\ pc = "done" =>
              \A j \in 1..Len(backups) : \A name \in Declared :
                  InRepos(name, backups[j]) => BackedUp(backups[j].path, name)

\* A run that ended normally although a job names an undeclared repository
\* next to a declared one; that job's path went to the declared one.
C19_Witness ==
    /\ func = "backup" /\ pc = "done"
    /\ \E j \in 1..Len(backups) :
          /\ NamesUndeclared(j)
          /\ \E name \in Declared :
                InRepos(name, backups[j]) /\ BackedUp(backups[j].path, name)

\* ---- C20: coverage of backup-all -------------------------------------------
\* The backup children of `name` that have `path` among their arguments.
Carrying(path, name) ==
    {c \in Children(name, "backup") :
        \E n \in 1..Len(Args(log[c])) : Args(log[c])[n] = path}

\* C20: in a backup-all run no backup child of a repository carries the path
\* of a job that does not name that repository; and once a run on
\* repositories that can all be handed to the engine is over with every
\* child having exited zero, for every job and every declared repository it
\* names (once or more) exactly one backup child of that repository carries
\* the job's path, and that child is the invocation of the job's host group.
C20_Coverage ==
    func = "backup" =>
        /\ \A j \in 1..Len(backups) : \A name \in Declared :
              ~InRepos(name, backups[j]) => Carrying(backups[j].path, name) = {}
        /\ (/\ Terminated /\ AllZero
            /\ \A k \in 1..Len(repos) : ~Unresolvable(repos[k]) /\ ~SecretMissing(repos[k])) =>
              \A j \in 1..Len(backups) : \A name \in Declared :
                  InRepos(name, backups[j]) =>
                      /\ Cardinality(Carrying(backups[j].path, name)) = 1
                      /\ \A c \in Carrying(backups[j].path, name) :
                            Args(log[c]) = PlanArgs(name, backups[j].host)

\* A finished run on two repositories where one job of a host group names
\* both and another job of the same host group names the first only: the
\* first repository's backup carries two paths, the second's one.
C20_Witness ==
    /\ func = "backup" /\ pc = "done" /\ AllZero
    /\ Len(repos) = 2 /\ Len(backups) = 2
    /\ backups[1].host = backups[2].host
    /\ InRepos(repos[1].name, backups[1]) /\ InRepos(repos[2].name, backups[1])
    /\ InRepos(repos[1].name, backups[2]) /\ ~InRepos(repos[2].name, backups[2])
    /\ Cardinality(Carrying(backups[2].path, repos[1].name)) = 1
    /\ Carrying(backups[2].path, repos[2].name) = {}
    /\ Carrying(backups[1].path, repos[2].name) # {}

====
